---- MODULE Spec2Model ----
(***************************************************************************)
(* Task manager (Amaankaa/GO-Tasks): user registration, login, JWT issue   *)
(* and validation, the gin middleware chain (AuthMiddleware, AdminOnly),   *)
(* the router and the MongoDB-backed user and task repositories.           *)
(*                                                                         *)
(* A MongoDB collection is a sequence of documents in insertion order.     *)
(* Every collection call (FindOne, CountDocuments, InsertOne, UpdateOne,   *)
(* DeleteOne) is atomic; a repository method that makes several calls is   *)
(* split into one step per call, so that concurrent requests interleave    *)
(* between the calls exactly where goroutines serving them can.            *)
(***************************************************************************)
EXTENDS Integers, Sequences, FiniteSets, Bags, TLC

VARIABLES
    users,    \* the "users" collection: sequence of User documents
    tasks,    \* the "tasks" collection: sequence of Task documents
    oid,      \* ObjectIDs handed out by primitive.NewObjectID, per collection
    reg,      \* the RegisterUser calls in progress (a bag: goroutines are anonymous)
    issued,   \* tokens returned by successful logins that clients still hold
    last      \* the response written by the most recent completed request

vars == <<users, tasks, oid, reg, issued, last>>

(***************************************************************************)
(* Bounds                                                                  *)
(***************************************************************************)
NumProcs == 2       \* goroutines that can be inside RegisterUser at once
MaxUsers == 2       \* user documents inserted in a run
MaxTasks == 1       \* task documents inserted in a run
MaxTokens == 1      \* tokens the clients keep for later requests

Usernames == {"", "alice", "bob"}
Passwords == {"", "pw1", "pw2"}

(***************************************************************************)
(* primitive.ObjectID.  An ObjectID is a number; Hex renders it as the     *)
(* 24-digit lower-case hexadecimal string, ObjectIDFromHex parses such a   *)
(* string back and fails on every other string.                            *)
(***************************************************************************)
HexDigit == <<"0", "1", "2", "3", "4", "5", "6", "7",
              "8", "9", "a", "b", "c", "d", "e", "f">>

NilObjectID == 0

HexString(n) ==
    "0000000000000000000000" \o HexDigit[((n \div 16) % 16) + 1] \o HexDigit[(n % 16) + 1]

\* NewObjectID returns an id it has never returned before.  The ids given
\* to user documents are numbered from 1 and those given to task documents
\* from TaskIDBase + 1, so that no id is handed out twice.
TaskIDBase == 16

NewObjectID(base, handedOut) == base + handedOut + 1

\* ids that can be written as a path parameter: the zero id, every id the
\* run can hand out and, past each range, one id that is never handed out
ObjectIDs == (0..(MaxUsers + 1)) \cup ((TaskIDBase + 1)..(TaskIDBase + MaxTasks + 2))

HexOf == [n \in ObjectIDs |-> HexString(n)]

Hex(n) == HexOf[n]

\* the id whose Hex is s; an error when s is the Hex of no id
ObjectIDFromHex(s) ==
    IF \E n \in ObjectIDs : HexOf[n] = s
    THEN [err |-> "", id |-> CHOOSE n \in ObjectIDs : HexOf[n] = s]
    ELSE [err |-> "the provided hex string is not a valid ObjectID", id |-> NilObjectID]

(***************************************************************************)
(* PasswordService (Infrastructure/password_service.go)                    *)
(***************************************************************************)
Hashes == [password \in Passwords |-> "$2a$10$" \o password]

HashPassword(password) == Hashes[password]

ComparePassword(hashedPassword, password) ==
    IF hashedPassword = HashPassword(password)
    THEN ""
    ELSE "crypto/bcrypt: hashedPassword is not the hash of the given password"

(***************************************************************************)
(* JWTService.  A token string is its three decoded segments: the header's *)
(* alg, the claims map and the signature; wf is FALSE for a string that    *)
(* does not split into three base64 segments.  A JSON value is a pair of   *)
(* its type and its text.                                                  *)
(***************************************************************************)
jwtSecret == "your_dev_secret_key"

Str(s) == <<"string", s>>
Null   == <<"null", "">>
Num(s) == <<"number", s>>

\* a Go map with string keys: every key of interest is mapped to its value,
\* or to Absent when the map has no such key; indexing a missing key yields
\* nil
Absent == <<"absent", "">>

MapIndex(m, key) == IF m[key] = Absent THEN Null ELSE m[key]

ClaimKeys == {"_id", "username", "role"}

NoClaims == [k \in ClaimKeys |-> Absent]

HMACSign(key, alg, claims) == <<"HMAC-SHA256", key, alg, claims>>

\* jwt.MapClaims{"_id": id, "username": username, "role": role}
ClaimsOf(id, username, role) ==
    [k \in ClaimKeys |->
        CASE k = "_id" -> id [] k = "username" -> username [] k = "role" -> role]

GenerateToken(userID, username, role) ==
    LET claims == ClaimsOf(Str(userID), Str(username), Str(role))
    IN  [wf |-> TRUE, alg |-> "HS256", claims |-> claims,
         sig |-> HMACSign(jwtSecret, "HS256", claims)]

\* jwt.Parse with the key function of ValidateToken / AuthMiddleware
jwtParse(tokenString) ==
    IF ~tokenString.wf THEN [err |-> "token contains an invalid number of segments"]
    ELSE IF tokenString.alg \notin {"HS256", "HS384", "HS512"}
         THEN [err |-> "signature is invalid"]
    ELSE IF tokenString.sig # HMACSign(jwtSecret, tokenString.alg, tokenString.claims)
         THEN [err |-> "signature is invalid"]
    ELSE [err |-> "", claims |-> tokenString.claims]

ValidateToken(tokenString) ==
    LET parsed == jwtParse(tokenString)
    IN  IF parsed.err # ""
        THEN [err |-> "invalid or expired token"]
        ELSE [err |-> "", claims |-> parsed.claims]

(***************************************************************************)
(* Collection queries                                                      *)
(***************************************************************************)
\* positions of the documents matching a filter on one field
Matching(coll, field, value) == {i \in 1..Len(coll) : coll[i][field] = value}

\* FindOne: the first matching document in natural order, or ErrNoDocuments
FindOne(coll, field, value) ==
    LET m == Matching(coll, field, value)
    IN  IF m = {}
        THEN [err |-> "mongo: no documents in result"]
        ELSE [err |-> "", doc |-> coll[CHOOSE i \in m : \A j \in m : i <= j]]

ErrNoDocuments == "mongo: no documents in result"

CountDocuments(coll) == Len(coll)

InsertOne(coll, doc) == Append(coll, doc)

First(m) == CHOOSE i \in m : \A j \in m : i <= j

\* UpdateOne with {"$set": {field: value, ...}}: the first matching document
\* gets the fields of `set`
UpdateOne(coll, field, value, set) ==
    LET m == Matching(coll, field, value)
    IN  IF m = {}
        THEN [MatchedCount |-> 0, coll |-> coll]
        ELSE [MatchedCount |-> 1,
              coll |-> [coll EXCEPT ![First(m)] =
                           [f \in DOMAIN @ |-> IF f \in DOMAIN set THEN set[f] ELSE @[f]]]]

\* DeleteOne: the first matching document is removed
DeleteOne(coll, field, value) ==
    LET m == Matching(coll, field, value)
    IN  IF m = {}
        THEN [DeletedCount |-> 0, coll |-> coll]
        ELSE [DeletedCount |-> 1,
              coll |-> SubSeq(coll, 1, First(m) - 1) \o SubSeq(coll, First(m) + 1, Len(coll))]

(***************************************************************************)
(* Domain values and HTTP responses                                        *)
(***************************************************************************)
User(id, username, password, role) ==
    [id |-> id, username |-> username, password |-> password, role |-> role]

ZeroUser == User(NilObjectID, "", "", "")

Task(id, title, description, due_date, status) ==
    [id |-> id, title |-> title, description |-> description,
     due_date |-> due_date, status |-> status]

ZeroTask == Task(NilObjectID, "", "", "", "")

\* a Go slice: nil until the first append
NilSlice == [nil |-> TRUE, elems |-> <<>>]

Slice(elems) == [nil |-> FALSE, elems |-> elems]

NoToken == [wf |-> FALSE, alg |-> "", claims |-> NoClaims, sig |-> <<>>]

NoHeader == <<>>

ContextKeys == {"user_id", "username", "role"}

EmptyContext == [k \in ContextKeys |-> Absent]

\* what a request leaves behind: the route, the Authorization header and
\* the inputs it carried, the status and body written by c.JSON, the keys
\* set on the gin context, whether the route's handler was entered, and the
\* collection calls the request made, in order
Blank ==
    [route |-> "", header |-> NoHeader, param |-> "", in |-> ZeroUser,
     taskIn |-> ZeroTask, status |-> 0, key |-> "", error |-> "",
     out |-> ZeroUser, taskOut |-> ZeroTask, list |-> NilSlice,
     token |-> NoToken, ctx |-> EmptyContext, ran |-> FALSE, calls |-> <<>>]

\* the key of the JSON object that carries an error message
ErrorKey(error) == IF error = "" THEN "" ELSE "error"

Response(route, header, param, in, status, error, out, token, ctx, ran, calls) ==
    [Blank EXCEPT !.route = route, !.header = header, !.param = param, !.in = in,
                  !.status = status, !.key = ErrorKey(error), !.error = error,
                  !.out = out, !.token = token, !.ctx = ctx, !.ran = ran,
                  !.calls = calls]

StatusOK == 200
StatusCreated == 201
StatusNoContent == 204
StatusBadRequest == 400
StatusUnauthorized == 401
StatusForbidden == 403
StatusNotFound == 404
StatusInternalServerError == 500

BindError == "invalid character 'i' looking for beginning of value"

\* bodies of POST /register and POST /login: the JSON fields of domain.User
\* that a client can set (the role field included)
SubmittedRoles == {"", "admin"}

UserBodies ==
    {User(NilObjectID, u, p, r) : u \in Usernames, p \in Passwords, r \in SubmittedRoles}

\* bodies that carry a username and a password only
CredentialBodies == {user \in UserBodies : user.role = ""}

\* the register bodies sent while the whole API is exercised; a role is
\* submitted with the bodies that pass the field check
ApiRegisterBodies ==
    {user \in UserBodies :
        /\ user.password \in {"", "pw1"}
        /\ user.role = "" \/ (user.username # "" /\ user.password # "")}

(***************************************************************************)
(* POST /register: Controller.Register -> UserUsecase.RegisterUser ->      *)
(* UserRepository.RegisterUser.  The route is public, so the handler is    *)
(* always entered.  The repository method makes three collection calls:    *)
(* FindOne (with the field check that precedes it), CountDocuments and     *)
(* InsertOne; reg[p].pc names the call goroutine p makes next.             *)
(***************************************************************************)
Call(pc, user) == [pc |-> pc, user |-> user]

Enter(call)  == reg (+) SetToBag({call})
Leave(call)  == reg (-) SetToBag({call})
Calls(pc)    == {call \in BagToSet(reg) : call.pc = pc}
InRegister   == BagCardinality(reg)

RegisterResponse(user, status, error, out, calls) ==
    Response("POST /register", NoHeader, "", user, status, error, out,
             NoToken, EmptyContext, TRUE, calls)

\* ShouldBindJSON fails: the body is not JSON
RegisterBadBody ==
    /\ last' = RegisterResponse(ZeroUser, StatusBadRequest, BindError, ZeroUser, <<>>)
    /\ UNCHANGED <<users, tasks, oid, reg, issued>>

\* lines 50-52: the field check
FieldsEmpty(user) == user.username = "" \/ user.password = ""

\* lines 54-61: the lookup by username
UsernameTakenSameCredentials(coll, user) ==
    \E i \in 1..Len(coll) :
        /\ coll[i].username = user.username
        /\ coll[i].password = HashPassword(user.password)

UsernameTaken(coll, user) == FindOne(coll, "username", user.username).err = ""

\* a goroutine enters RegisterUser while fewer than `limit` are inside
RegisterUser(limit, user) ==
    /\ InRegister < limit
    /\ IF FieldsEmpty(user)
       THEN /\ last' = RegisterResponse(user, StatusBadRequest,
                                        "fields cannot be empty", ZeroUser, <<>>)
            /\ reg' = reg
       ELSE IF UsernameTaken(users, user)
       THEN /\ last' = RegisterResponse(user, StatusBadRequest,
                                        "username already taken", ZeroUser,
                                        <<"FindOne">>)
            /\ reg' = reg
       ELSE /\ reg' = Enter(Call("CountDocuments", user))
            /\ last' = last
    /\ UNCHANGED <<users, tasks, oid, issued>>

\* lines 63-72: the first-user check
RoleForCountOffByOne(userCount) == IF userCount <= 1 THEN "admin" ELSE "user"

RoleForCount(userCount) == IF userCount = 0 THEN "admin" ELSE "user"

RegisterCountDocuments(call) ==
    /\ call \in Calls("CountDocuments")
    /\ reg' = Leave(call) (+) SetToBag({Call("InsertOne",
                  [call.user EXCEPT !.role = RoleForCount(CountDocuments(users))])})
    /\ UNCHANGED <<users, tasks, oid, issued, last>>

\* lines 74-89: hash, fresh id, insert, clear the password of the reply.
\* The reply echoes the request body as submitted but for its role, which
\* line 69 or 71 has overwritten.
RegisterInsertOnePlaintext(call) ==
    /\ call \in Calls("InsertOne")
    /\ oid.users < MaxUsers
    /\ LET user == [call.user EXCEPT !.id = NewObjectID(0, oid.users)]
       IN  /\ users' = InsertOne(users, user)
           /\ last' = RegisterResponse(
                          [call.user EXCEPT !.role = ""], StatusCreated, "",
                          [user EXCEPT !.password = ""],
                          <<"FindOne", "CountDocuments", "InsertOne">>)
    /\ oid' = [oid EXCEPT !.users = @ + 1]
    /\ reg' = Leave(call)
    /\ UNCHANGED <<tasks, issued>>

RegisterInsertOne(call) ==
    /\ call \in Calls("InsertOne")
    /\ oid.users < MaxUsers
    /\ LET user == [call.user EXCEPT !.password = HashPassword(call.user.password),
                                     !.id = NewObjectID(0, oid.users)]
       IN  /\ users' = InsertOne(users, user)
           /\ last' = RegisterResponse(
                          [call.user EXCEPT !.role = ""], StatusCreated, "",
                          [user EXCEPT !.password = ""],
                          <<"FindOne", "CountDocuments", "InsertOne">>)
    /\ oid' = [oid EXCEPT !.users = @ + 1]
    /\ reg' = Leave(call)
    /\ UNCHANGED <<tasks, issued>>

(***************************************************************************)
(* POST /login: Controller.Login -> UserUsecase.LoginUser ->               *)
(* UserRepository.LoginUser (one collection call)                          *)
(***************************************************************************)
LoginUserTellsApart(coll, user) ==
    IF user.username = ""
    THEN [err |-> "username is a required field", token |-> NoToken, user |-> ZeroUser,
          calls |-> <<>>]
    ELSE LET found == FindOne(coll, "username", user.username)
         IN  IF found.err # ""
             THEN [err |-> "user not found", token |-> NoToken,
                   user |-> ZeroUser, calls |-> <<"FindOne">>]
             ELSE IF ComparePassword(found.doc.password, user.password) # ""
             THEN [err |-> "invalid username or password", token |-> NoToken,
                   user |-> ZeroUser, calls |-> <<"FindOne">>]
             ELSE [err |-> "", calls |-> <<"FindOne">>,
                   token |-> GenerateToken(Hex(found.doc.id), found.doc.username,
                                           found.doc.role),
                   user |-> User(found.doc.id, found.doc.username, "", "")]

LoginUser(coll, user) ==
    IF user.username = ""
    THEN [err |-> "username is a required field", token |-> NoToken, user |-> ZeroUser,
          calls |-> <<>>]
    ELSE LET found == FindOne(coll, "username", user.username)
         IN  IF found.err # ""
             THEN [err |-> "invalid username or password", token |-> NoToken,
                   user |-> ZeroUser, calls |-> <<"FindOne">>]
             ELSE IF ComparePassword(found.doc.password, user.password) # ""
             THEN [err |-> "invalid username or password", token |-> NoToken,
                   user |-> ZeroUser, calls |-> <<"FindOne">>]
             ELSE [err |-> "", calls |-> <<"FindOne">>,
                   token |-> GenerateToken(Hex(found.doc.id), found.doc.username,
                                           found.doc.role),
                   \* LoginResponse carries ID and Username only
                   user |-> User(found.doc.id, found.doc.username, "", "")]

\* Controller.Login after a successful bind: every error of LoginUser is
\* answered 401; the reply is the response but for the echo of the request
LoginReply(coll, user) ==
    LET res == LoginUser(coll, user)
    IN  IF res.err # ""
        THEN [Blank EXCEPT !.route = "POST /login", !.ran = TRUE,
                           !.status = StatusUnauthorized, !.key = "error",
                           !.error = res.err, !.calls = res.calls]
        ELSE [Blank EXCEPT !.route = "POST /login", !.ran = TRUE,
                           !.status = StatusOK, !.out = res.user,
                           !.token = res.token, !.calls = res.calls]

LoginBadBody ==
    /\ last' = [Blank EXCEPT !.route = "POST /login", !.ran = TRUE,
                             !.status = StatusBadRequest, !.key = "error",
                             !.error = BindError]
    /\ UNCHANGED <<users, tasks, oid, reg, issued>>

Login(user) ==
    /\ last' = [LoginReply(users, user) EXCEPT !.in = user]
    /\ UNCHANGED <<users, tasks, oid, reg, issued>>

\* the client keeps the token of the login response for its later requests;
\* one that already holds MaxTokens tokens drops one for the new one
Keep(token) ==
    \/ /\ token \notin issued
       /\ Cardinality(issued) < MaxTokens
       /\ issued' = issued \cup {token}
    \/ /\ token \notin issued
       /\ Cardinality(issued) >= MaxTokens
       /\ \E t \in issued : issued' = (issued \ {t}) \cup {token}

KeepToken ==
    /\ last.status = StatusOK
    /\ last.token # NoToken
    /\ Keep(last.token)
    /\ UNCHANGED <<users, tasks, oid, reg, last>>

(***************************************************************************)
(* The Authorization header is the sequence of its space-separated parts:  *)
(* <<>> is the empty header, <<"Bearer">> the word alone, and              *)
(* <<scheme, token>> is scheme, a space and the token string.              *)
(***************************************************************************)
HasPrefixBearer(header) == Len(header) >= 2 /\ header[1] = "Bearer"

TrimPrefixBearer(header) == header[2]

\* token strings a client can write without having been given them: not a
\* JWT, a JWT signed with another key, an unsigned JWT, and JWTs under the
\* development secret whose role claim is missing or a number
Signed(key, alg, claims) ==
    [wf |-> TRUE, alg |-> alg, claims |-> claims, sig |-> HMACSign(key, alg, claims)]

AdminClaims == ClaimsOf(Str(Hex(1)), Str("alice"), Str("admin"))

MalformedToken == NoToken
WrongKeyToken  == Signed("not_the_secret", "HS256", AdminClaims)
AlgNoneToken   == [wf |-> TRUE, alg |-> "none", claims |-> AdminClaims, sig |-> <<>>]
NoRoleToken    == Signed(jwtSecret, "HS256", ClaimsOf(Str(Hex(1)), Str("alice"), Absent))
NumRoleToken   == Signed(jwtSecret, "HS256", ClaimsOf(Str(Hex(1)), Str("alice"), Num("1")))

ForgedTokens ==
    {MalformedToken, WrongKeyToken, AlgNoneToken, NoRoleToken, NumRoleToken}

Headers ==
    {NoHeader, <<"Bearer">>}
        \cup {<<"Basic", t>> : t \in issued}
        \cup {<<"Bearer", t>> : t \in issued \cup ForgedTokens}

(***************************************************************************)
(* gin.Context and the middleware (AuthMiddleware, AdminOnly)              *)
(***************************************************************************)
NewContext(header) ==
    [header |-> header, keys |-> EmptyContext, aborted |-> FALSE,
     status |-> 0, error |-> ""]

\* c.JSON(status, gin.H{"error": error}); c.Abort()
AbortWith(c, status, error) ==
    [c EXCEPT !.status = status, !.error = error, !.aborted = TRUE]

AuthMiddlewareAnyScheme(c) ==
    IF c.header = NoHeader \/ Len(c.header) < 2
    THEN AbortWith(c, StatusUnauthorized, "Authorization header missing or invalid")
    ELSE LET parsed == jwtParse(c.header[2])
         IN  IF parsed.err # ""
             THEN AbortWith(c, StatusUnauthorized, "Invalid or expired token")
             ELSE [c EXCEPT !.keys = [k \in ContextKeys |->
                       CASE k = "user_id"  -> MapIndex(parsed.claims, "_id")
                         [] k = "username" -> MapIndex(parsed.claims, "username")
                         [] k = "role"     -> MapIndex(parsed.claims, "role")]]

AuthMiddleware(c) ==
    IF c.header = NoHeader \/ ~HasPrefixBearer(c.header)
    THEN AbortWith(c, StatusUnauthorized, "Authorization header missing or invalid")
    ELSE LET parsed == jwtParse(TrimPrefixBearer(c.header))
         IN  IF parsed.err # ""
             THEN AbortWith(c, StatusUnauthorized, "Invalid or expired token")
             ELSE [c EXCEPT !.keys = [k \in ContextKeys |->
                       CASE k = "user_id"  -> MapIndex(parsed.claims, "_id")
                         [] k = "username" -> MapIndex(parsed.claims, "username")
                         [] k = "role"     -> MapIndex(parsed.claims, "role")]]

AdminOnlyTypeAssert(c) ==
    LET role == c.keys["role"]
    IN  IF role[1] # "string"
        THEN AbortWith(c, StatusInternalServerError, "")
        ELSE IF role # Str("admin")
        THEN AbortWith(c, StatusForbidden, "Admin access required")
        ELSE c

AdminOnlyFromStore(c) ==
    LET stored == {i \in 1..Len(users) : Str(Hex(users[i].id)) = c.keys["user_id"]}
    IN  IF \A i \in stored : users[i].role # "admin"
        THEN AbortWith(c, StatusForbidden, "Admin access required")
        ELSE c

AdminOnly(c) ==
    LET exists == c.keys["role"] # Absent
        role   == c.keys["role"]
    IN  IF ~exists \/ role # Str("admin")
        THEN AbortWith(c, StatusForbidden, "Admin access required")
        ELSE c

Middleware(name, c) ==
    CASE name = "AuthMiddleware" -> AuthMiddleware(c)
      [] name = "AdminOnly"      -> AdminOnly(c)

\* the handlers of a chain run in order; each returns without calling the
\* next one once it has aborted
RECURSIVE RunChain(_, _)
RunChain(chain, c) ==
    IF chain = <<>> \/ c.aborted
    THEN c
    ELSE RunChain(Tail(chain), Middleware(Head(chain), c))

(***************************************************************************)
(* SetupRouter: the middleware in front of each protected route.  A route  *)
(* gets the middleware its group holds when the route is registered.       *)
(***************************************************************************)
TasksGroup == <<"AuthMiddleware">>
UsersGroup == <<"AuthMiddleware">>
UsersGroupAfter == UsersGroup \o <<"AuthMiddleware", "AdminOnly">>

SetupRouterOpenCreate ==
    [  GetTasks          |-> TasksGroup,
       GetTaskByID       |-> TasksGroup,
       CreateTask        |-> TasksGroup,
       UpdateTask        |-> TasksGroup \o <<"AdminOnly">>,
       DeleteTask        |-> TasksGroup \o <<"AdminOnly">>,
       GetUserByUsername |-> UsersGroup,
       Promote           |-> UsersGroupAfter ]

SetupRouterUseBeforeGet ==
    [  GetTasks          |-> TasksGroup,
       GetTaskByID       |-> TasksGroup,
       CreateTask        |-> TasksGroup \o <<"AdminOnly">>,
       UpdateTask        |-> TasksGroup \o <<"AdminOnly">>,
       DeleteTask        |-> TasksGroup \o <<"AdminOnly">>,
       GetUserByUsername |-> UsersGroupAfter,
       Promote           |-> UsersGroupAfter ]

SetupRouter ==
    [  GetTasks          |-> TasksGroup,
       GetTaskByID       |-> TasksGroup,
       CreateTask        |-> TasksGroup \o <<"AdminOnly">>,
       UpdateTask        |-> TasksGroup \o <<"AdminOnly">>,
       DeleteTask        |-> TasksGroup \o <<"AdminOnly">>,
       GetUserByUsername |-> UsersGroup,
       Promote           |-> UsersGroupAfter ]

RouteName ==
    [  GetTasks          |-> "GET /tasks",
       GetTaskByID       |-> "GET /tasks/:id",
       CreateTask        |-> "POST /tasks",
       UpdateTask        |-> "PUT /tasks/:id",
       DeleteTask        |-> "DELETE /tasks/:id",
       GetUserByUsername |-> "GET /users/:username",
       Promote           |-> "POST /users/:id/promote" ]

AdminRoutes ==
    {"POST /tasks", "PUT /tasks/:id", "DELETE /tasks/:id", "POST /users/:id/promote"}

Serve(handler, header) == RunChain(SetupRouter[handler], NewContext(header))

\* the response of a request that a middleware aborted
Aborted(handler, c) ==
    [Blank EXCEPT !.route = RouteName[handler], !.header = c.header,
                  !.status = c.status, !.key = "error", !.error = c.error,
                  !.ctx = c.keys]

\* the part of a response that the middleware chain decides when it lets
\* the request through to the handler
Passed(handler, c) ==
    [Blank EXCEPT !.route = RouteName[handler], !.header = c.header,
                  !.ctx = c.keys, !.ran = TRUE]

(***************************************************************************)
(* TaskRepository and UserRepository methods behind the protected routes.  *)
(* Each returns the error string ("" for nil), the value and the           *)
(* collection as the method leaves it.                                     *)
(***************************************************************************)
GetAllTasks(coll) ==
    [err |-> "", list |-> IF Len(coll) = 0 THEN NilSlice ELSE Slice(coll)]

GetTaskByIDRepoNoParseCheck(coll, id) ==
    LET found == FindOne(coll, "id", ObjectIDFromHex(id).id)
    IN  IF found.err = ErrNoDocuments
        THEN [err |-> "not found", task |-> ZeroTask, calls |-> <<"FindOne">>]
        ELSE [err |-> "", task |-> found.doc, calls |-> <<"FindOne">>]

GetTaskByIDRepo(coll, id) ==
    LET objID == ObjectIDFromHex(id)
    IN  IF objID.err # ""
        THEN [err |-> "invalid id format", task |-> ZeroTask, calls |-> <<>>]
        ELSE LET found == FindOne(coll, "id", objID.id)
             IN  IF found.err = ErrNoDocuments
                 THEN [err |-> "not found", task |-> ZeroTask, calls |-> <<"FindOne">>]
                 ELSE [err |-> "", task |-> found.doc, calls |-> <<"FindOne">>]

CreateTaskRepoKeepsID(coll, task, handedOut) ==
    LET created == IF task.id = NilObjectID
                   THEN [task EXCEPT !.id = NewObjectID(TaskIDBase, handedOut)]
                   ELSE task
    IN  [err |-> "", task |-> created, coll |-> InsertOne(coll, created)]

CreateTaskRepo(coll, task, handedOut) ==
    LET created == [task EXCEPT !.id = NewObjectID(TaskIDBase, handedOut)]
    IN  [err |-> "", task |-> created, coll |-> InsertOne(coll, created)]

UpdateTaskRepoSkipsEmpty(coll, id, updated) ==
    LET objID == ObjectIDFromHex(id)
        fields == {f \in {"title", "description", "due_date", "status"} : updated[f] # ""}
    IN  IF objID.err # ""
        THEN [err |-> "invalid id format", task |-> ZeroTask, coll |-> coll,
              calls |-> <<>>]
        ELSE LET res == UpdateOne(coll, "id", objID.id, [f \in fields |-> updated[f]])
             IN  IF res.MatchedCount = 0
                 THEN [err |-> "not found", task |-> ZeroTask, coll |-> coll,
                       calls |-> <<"UpdateOne">>]
                 ELSE LET reread == GetTaskByIDRepo(res.coll, id)
                      IN  [err |-> reread.err, task |-> reread.task, coll |-> res.coll,
                           calls |-> <<"UpdateOne">> \o reread.calls]

UpdateTaskRepo(coll, id, updated) ==
    LET objID == ObjectIDFromHex(id)
    IN  IF objID.err # ""
        THEN [err |-> "invalid id format", task |-> ZeroTask, coll |-> coll,
              calls |-> <<>>]
        ELSE LET res == UpdateOne(coll, "id", objID.id,
                            [title |-> updated.title,
                             description |-> updated.description,
                             due_date |-> updated.due_date,
                             status |-> updated.status])
             IN  IF res.MatchedCount = 0
                 THEN [err |-> "not found", task |-> ZeroTask, coll |-> coll,
                       calls |-> <<"UpdateOne">>]
                 ELSE LET reread == GetTaskByIDRepo(res.coll, id)
                      IN  [err |-> reread.err, task |-> reread.task, coll |-> res.coll,
                           calls |-> <<"UpdateOne">> \o reread.calls]

DeleteTaskRepoNoCount(coll, id) ==
    LET objID == ObjectIDFromHex(id)
    IN  IF objID.err # ""
        THEN [err |-> "invalid id format", coll |-> coll, calls |-> <<>>]
        ELSE [err |-> "", coll |-> DeleteOne(coll, "id", objID.id).coll,
              calls |-> <<"DeleteOne">>]

DeleteTaskRepo(coll, id) ==
    LET objID == ObjectIDFromHex(id)
    IN  IF objID.err # ""
        THEN [err |-> "invalid id format", coll |-> coll, calls |-> <<>>]
        ELSE LET res == DeleteOne(coll, "id", objID.id)
             IN  IF res.DeletedCount = 0
                 THEN [err |-> "not found", coll |-> coll, calls |-> <<"DeleteOne">>]
                 ELSE [err |-> "", coll |-> res.coll, calls |-> <<"DeleteOne">>]

PromoteUserNoMatchedCount(coll, id) ==
    LET objID == ObjectIDFromHex(id)
    IN  IF objID.err # ""
        THEN [err |-> "invalid user ID", user |-> ZeroUser, coll |-> coll,
              calls |-> <<>>]
        ELSE LET res == UpdateOne(coll, "id", objID.id, [role |-> "admin"])
                 updatedUser == FindOne(res.coll, "id", objID.id)
             IN  IF updatedUser.err # ""
                 THEN [err |-> updatedUser.err, user |-> ZeroUser, coll |-> res.coll,
                       calls |-> <<"UpdateOne", "FindOne">>]
                 ELSE [err |-> "",
                       user |-> [updatedUser.doc EXCEPT !.password = ""],
                       coll |-> res.coll, calls |-> <<"UpdateOne", "FindOne">>]

PromoteUserClearsPassword(coll, id) ==
    LET objID == ObjectIDFromHex(id)
    IN  IF objID.err # ""
        THEN [err |-> "invalid user ID", user |-> ZeroUser, coll |-> coll,
              calls |-> <<>>]
        ELSE LET res == UpdateOne(coll, "id", objID.id,
                                  [role |-> "admin", password |-> ""])
             IN  IF res.MatchedCount = 0
                 THEN [err |-> "user not found", user |-> ZeroUser, coll |-> coll,
                       calls |-> <<"UpdateOne">>]
                 ELSE LET updatedUser == FindOne(res.coll, "id", objID.id)
                      IN  [err |-> updatedUser.err,
                           user |-> [updatedUser.doc EXCEPT !.password = ""],
                           coll |-> res.coll, calls |-> <<"UpdateOne", "FindOne">>]

PromoteUserToggles(coll, id) ==
    LET objID == ObjectIDFromHex(id)
    IN  IF objID.err # ""
        THEN [err |-> "invalid user ID", user |-> ZeroUser, coll |-> coll,
              calls |-> <<>>]
        ELSE LET found == FindOne(coll, "id", objID.id)
                 role == IF found.err = "" /\ found.doc.role = "admin"
                         THEN "user" ELSE "admin"
                 res == UpdateOne(coll, "id", objID.id, [role |-> role])
             IN  IF res.MatchedCount = 0
                 THEN [err |-> "user not found", user |-> ZeroUser, coll |-> coll,
                       calls |-> <<"UpdateOne">>]
                 ELSE LET updatedUser == FindOne(res.coll, "id", objID.id)
                      IN  [err |-> updatedUser.err,
                           user |-> [updatedUser.doc EXCEPT !.password = ""],
                           coll |-> res.coll, calls |-> <<"UpdateOne", "FindOne">>]

PromoteUser(coll, id) ==
    LET objID == ObjectIDFromHex(id)
    IN  IF objID.err # ""
        THEN [err |-> "invalid user ID", user |-> ZeroUser, coll |-> coll,
              calls |-> <<>>]
        ELSE LET res == UpdateOne(coll, "id", objID.id, [role |-> "admin"])
             IN  IF res.MatchedCount = 0
                 THEN [err |-> "user not found", user |-> ZeroUser, coll |-> coll,
                       calls |-> <<"UpdateOne">>]
                 ELSE LET updatedUser == FindOne(res.coll, "id", objID.id)
                      IN  [err |-> updatedUser.err,
                           user |-> [updatedUser.doc EXCEPT !.password = ""],
                           coll |-> res.coll, calls |-> <<"UpdateOne", "FindOne">>]

GetUserByUsernameRepo(coll, username) ==
    LET found == FindOne(coll, "username", username)
    IN  IF found.err = ErrNoDocuments
        THEN [err |-> "user not found", user |-> ZeroUser]
        ELSE [err |-> "", user |-> found.doc]

(***************************************************************************)
(* Controller: the handlers of the protected routes.  A request runs its   *)
(* middleware chain and, unless a middleware aborted it, the handler.      *)
(***************************************************************************)
\* the second body carries an id of the client's making, which NewObjectID
\* never returns
TaskBodies ==
    {Task(NilObjectID, "", "", "", ""),
     Task(NewObjectID(TaskIDBase, MaxTasks + 1), "Write tests", "e2e", "2024-12-31",
          "pending")}

\* request bodies: one that is not JSON, and the JSON of each task
JSONBodies ==
    {[bound |-> FALSE, task |-> ZeroTask]}
        \cup {[bound |-> TRUE, task |-> task] : task \in TaskBodies}

TaskParams ==
    {HexOf[n] : n \in (TaskIDBase + 1)..(TaskIDBase + MaxTasks + 1)} \cup {"invalid-id"}

UserParams == {HexOf[n] : n \in 1..(MaxUsers + 1)} \cup {"invalid-id"}

\* a middleware aborted the request: its response is all that happens
Abort(handler, c) ==
    /\ last' = Aborted(handler, c)
    /\ UNCHANGED <<users, tasks, oid, reg, issued>>

GetTasks(c) ==
    /\ last' = [Passed("GetTasks", c) EXCEPT
                   !.status = StatusOK, !.list = GetAllTasks(tasks).list,
                   !.calls = <<"Find">>]
    /\ UNCHANGED <<users, tasks, oid, reg, issued>>

GetTaskByID(c, id) ==
    LET res == GetTaskByIDRepo(tasks, id)
        got == [Passed("GetTaskByID", c) EXCEPT !.param = id, !.calls = res.calls]
    IN  /\ last' = IF res.err = "not found"
                   THEN [got EXCEPT !.status = StatusNotFound, !.key = "error",
                                    !.error = "Task not found"]
                   ELSE IF res.err # ""
                   THEN [got EXCEPT !.status = StatusBadRequest, !.key = "error",
                                    !.error = res.err]
                   ELSE [got EXCEPT !.status = StatusOK, !.taskOut = res.task]
        /\ UNCHANGED <<users, tasks, oid, reg, issued>>

\* bound is FALSE when ShouldBindJSON fails on the body; a run inserts
\* `limit` task documents at most
CreateTask(c, limit, bound, newTask) ==
    LET res == CreateTaskRepo(tasks, newTask, oid.tasks)
    IN  IF ~bound
        THEN /\ last' = [Passed("CreateTask", c) EXCEPT
                            !.status = StatusBadRequest, !.key = "error",
                            !.error = BindError]
             /\ UNCHANGED <<users, tasks, oid, reg, issued>>
        ELSE /\ oid.tasks < limit
             /\ tasks' = res.coll
             /\ oid' = [oid EXCEPT !.tasks = @ + 1]
             /\ last' = [Passed("CreateTask", c) EXCEPT
                            !.taskIn = newTask, !.status = StatusCreated,
                            !.taskOut = res.task, !.calls = <<"InsertOne">>]
             /\ UNCHANGED <<users, reg, issued>>

UpdateTask(c, id, bound, updatedTask) ==
    LET res == UpdateTaskRepo(tasks, id, updatedTask)
        got == [Passed("UpdateTask", c) EXCEPT !.param = id]
    IN  IF ~bound
        THEN /\ last' = [got EXCEPT !.status = StatusBadRequest, !.key = "error",
                                    !.error = BindError]
             /\ UNCHANGED <<users, tasks, oid, reg, issued>>
        ELSE /\ tasks' = res.coll
             /\ last' = IF res.err = "not found"
                        THEN [got EXCEPT !.taskIn = updatedTask,
                                 !.status = StatusNotFound, !.key = "message",
                                 !.error = "Task not Found", !.calls = res.calls]
                        ELSE IF res.err # ""
                        THEN [got EXCEPT !.taskIn = updatedTask,
                                 !.status = StatusBadRequest, !.key = "Error",
                                 !.error = res.err, !.calls = res.calls]
                        ELSE [got EXCEPT !.taskIn = updatedTask,
                                 !.status = StatusOK, !.taskOut = res.task,
                                 !.calls = res.calls]
             /\ UNCHANGED <<users, oid, reg, issued>>

DeleteTask(c, id) ==
    LET res == DeleteTaskRepo(tasks, id)
        got == [Passed("DeleteTask", c) EXCEPT !.param = id, !.calls = res.calls]
    IN  /\ tasks' = res.coll
        /\ last' = IF res.err = "not found"
                   THEN [got EXCEPT !.status = StatusNotFound, !.key = "error",
                                    !.error = "Task not found"]
                   ELSE IF res.err # ""
                   THEN [got EXCEPT !.status = StatusBadRequest, !.key = "error",
                                    !.error = res.err]
                   ELSE [got EXCEPT !.status = StatusNoContent]
        /\ UNCHANGED <<users, oid, reg, issued>>

Promote(c, id) ==
    LET res == PromoteUser(users, id)
        got == [Passed("Promote", c) EXCEPT !.param = id, !.calls = res.calls]
    IN  /\ users' = res.coll
        /\ last' = IF res.err = "invalid user ID"
                   THEN [got EXCEPT !.status = StatusBadRequest, !.key = "error",
                                    !.error = res.err]
                   ELSE IF res.err = "user not found"
                   THEN [got EXCEPT !.status = StatusNotFound, !.key = "error",
                                    !.error = res.err]
                   ELSE IF res.err # ""
                   THEN [got EXCEPT !.status = StatusInternalServerError,
                                    !.key = "error", !.error = res.err]
                   ELSE [got EXCEPT !.status = StatusOK, !.out = res.user]
        /\ UNCHANGED <<tasks, oid, reg, issued>>

GetUserByUsername(c, username) ==
    LET res == GetUserByUsernameRepo(users, username)
        got == [Passed("GetUserByUsername", c) EXCEPT
                   !.param = username, !.calls = <<"FindOne">>]
    IN  /\ last' = IF res.err = "user not found"
                   THEN [got EXCEPT !.status = StatusNotFound, !.key = "error",
                                    !.error = "User not found"]
                   ELSE [got EXCEPT !.status = StatusOK, !.out = res.user]
        /\ UNCHANGED <<users, tasks, oid, reg, issued>>

(***************************************************************************)
(* A request to a protected route: the chain, then the handler with the    *)
(* path parameter and body it reads                                        *)
(***************************************************************************)
RequestGetTasks(header) ==
    LET c == Serve("GetTasks", header)
    IN  IF c.aborted THEN Abort("GetTasks", c) ELSE GetTasks(c)

RequestGetTaskByID(header) ==
    LET c == Serve("GetTaskByID", header)
    IN  IF c.aborted THEN Abort("GetTaskByID", c)
        ELSE \E id \in TaskParams : GetTaskByID(c, id)

RequestCreateTask(header) ==
    LET c == Serve("CreateTask", header)
    IN  IF c.aborted THEN Abort("CreateTask", c)
        ELSE \E body \in JSONBodies : CreateTask(c, MaxTasks, body.bound, body.task)

RequestUpdateTask(header) ==
    LET c == Serve("UpdateTask", header)
    IN  IF c.aborted THEN Abort("UpdateTask", c)
        ELSE \E id \in TaskParams, body \in JSONBodies :
                 UpdateTask(c, id, body.bound, body.task)

RequestDeleteTask(header) ==
    LET c == Serve("DeleteTask", header)
    IN  IF c.aborted THEN Abort("DeleteTask", c)
        ELSE \E id \in TaskParams : DeleteTask(c, id)

RequestPromote(header) ==
    LET c == Serve("Promote", header)
    IN  IF c.aborted THEN Abort("Promote", c)
        ELSE \E id \in UserParams : Promote(c, id)

RequestGetUserByUsername(header) ==
    LET c == Serve("GetUserByUsername", header)
    IN  IF c.aborted THEN Abort("GetUserByUsername", c)
        ELSE \E username \in Usernames \ {""} : GetUserByUsername(c, username)

\* a route registered with AdminOnly alone in front of a handler that
\* answers 200: the chain starts on a context without keys
RequestAdminOnlyAlone(header) ==
    LET c == RunChain(<<"AdminOnly">>, NewContext(header))
        sent == [Blank EXCEPT !.route = "AdminOnly", !.header = c.header, !.ctx = c.keys]
    IN  /\ last' = IF c.aborted
                   THEN [sent EXCEPT !.status = c.status, !.key = "error",
                                     !.error = c.error]
                   ELSE [sent EXCEPT !.status = StatusOK, !.ran = TRUE]
        /\ UNCHANGED <<users, tasks, oid, reg, issued>>

(***************************************************************************)
(* The task_manager program (controllers -> data): POST /register and      *)
(* POST /login.  Its requests are served one after another here.  bcrypt   *)
(* is called directly, by the controller and again by the data layer.      *)
(***************************************************************************)
bcryptInputs == Passwords \cup {"$2a$10$" \o password : password \in Passwords}

bcryptHashes == [password \in bcryptInputs |-> "$2a$10$" \o password]

GenerateFromPassword(password) == bcryptHashes[password]

CompareHashAndPassword(hashedPassword, password) ==
    IF hashedPassword = GenerateFromPassword(password)
    THEN ""
    ELSE "crypto/bcrypt: hashedPassword is not the hash of the given password"

\* data.RegisterUser
dataRegisterUser(coll, user, handedOut) ==
    IF user.username = ""
    THEN [err |-> "username is a required field", user |-> ZeroUser, coll |-> coll,
          calls |-> <<>>]
    ELSE IF FindOne(coll, "username", user.username).err = ""
    THEN [err |-> "username already taken", user |-> ZeroUser, coll |-> coll,
          calls |-> <<"FindOne">>]
    ELSE LET stored == [user EXCEPT
                           !.role = IF CountDocuments(coll) = 0 THEN "admin" ELSE "user",
                           !.password = GenerateFromPassword(user.password),
                           !.id = NewObjectID(0, handedOut)]
         IN  [err |-> "", user |-> [stored EXCEPT !.password = ""],
              coll |-> InsertOne(coll, stored),
              calls |-> <<"FindOne", "CountDocuments", "InsertOne">>]

\* controllers.RegisterUser: the password is hashed before data.RegisterUser
\* is called (GenerateFromPassword fails on no password of Passwords)
controllersRegisterUser(bound, user) ==
    LET sent == [Blank EXCEPT !.route = "task_manager POST /register", !.ran = TRUE,
                              !.in = user]
        hashedPassword == GenerateFromPassword(user.password)
        res == dataRegisterUser(users, [user EXCEPT !.password = hashedPassword],
                                oid.users)
    IN  IF ~bound
        THEN /\ last' = [sent EXCEPT !.status = StatusBadRequest, !.key = "error",
                                     !.error = BindError]
             /\ UNCHANGED <<users, tasks, oid, reg, issued>>
        ELSE IF res.err # ""
        THEN /\ last' = [sent EXCEPT !.status = StatusBadRequest, !.key = "error",
                                     !.error = res.err, !.calls = res.calls]
             /\ UNCHANGED <<users, tasks, oid, reg, issued>>
        ELSE /\ oid.users < MaxUsers
             /\ users' = res.coll
             /\ oid' = [oid EXCEPT !.users = @ + 1]
             /\ last' = [sent EXCEPT !.status = StatusOK, !.out = res.user,
                                     !.calls = res.calls]
             /\ UNCHANGED <<tasks, reg, issued>>

\* data.LoginUser
dataLoginUser(coll, user) ==
    IF user.username = ""
    THEN [err |-> "username is a required field", token |-> NoToken, user |-> ZeroUser]
    ELSE LET existingUser == FindOne(coll, "username", user.username)
         IN  IF existingUser.err # ""
             THEN [err |-> "invalid username or password", token |-> NoToken,
                   user |-> ZeroUser]
             ELSE IF CompareHashAndPassword(existingUser.doc.password, user.password) # ""
             THEN [err |-> "invalid username or password", token |-> NoToken,
                   user |-> ZeroUser]
             ELSE [err |-> "",
                   token |-> GenerateToken(Hex(existingUser.doc.id),
                                           existingUser.doc.username,
                                           existingUser.doc.role),
                   user |-> User(existingUser.doc.id, existingUser.doc.username, "", "")]

\* controllers.LoginUser
controllersLoginUser(bound, user) ==
    LET sent == [Blank EXCEPT !.route = "task_manager POST /login", !.ran = TRUE,
                              !.in = user]
        res == dataLoginUser(users, user)
    IN  IF ~bound
        THEN /\ last' = [sent EXCEPT !.status = StatusBadRequest, !.key = "error",
                                     !.error = BindError]
             /\ UNCHANGED <<users, tasks, oid, reg, issued>>
        ELSE IF res.err # ""
        THEN /\ last' = [sent EXCEPT !.status = StatusBadRequest, !.key = "message",
                                     !.error = res.err]
             /\ UNCHANGED <<users, tasks, oid, reg, issued>>
        ELSE /\ last' = [sent EXCEPT !.status = StatusOK, !.out = res.user,
                                     !.token = res.token]
             /\ UNCHANGED <<users, tasks, oid, reg, issued>>

(***************************************************************************)
(* Specifications                                                          *)
(***************************************************************************)
Init ==
    /\ users = <<>>
    /\ tasks = <<>>
    /\ oid = [users |-> 0, tasks |-> 0]
    /\ reg = EmptyBag
    /\ issued = {}
    /\ last = Blank

\* the public routes, with at most `limit` goroutines inside RegisterUser
AccountsNext(limit, bodies) ==
    \/ RegisterBadBody
    \/ \E user \in bodies : RegisterUser(limit, user)
    \/ \E call \in BagToSet(reg) : RegisterCountDocuments(call)
    \/ \E call \in BagToSet(reg) : RegisterInsertOne(call)
    \/ LoginBadBody
    \/ \E user \in CredentialBodies : Login(user)

ProtectedNext ==
    \/ KeepToken
    \/ \E header \in Headers : RequestGetTasks(header)
    \/ \E header \in Headers : RequestGetTaskByID(header)
    \/ \E header \in Headers : RequestCreateTask(header)
    \/ \E header \in Headers : RequestUpdateTask(header)
    \/ \E header \in Headers : RequestDeleteTask(header)
    \/ \E header \in Headers : RequestPromote(header)
    \/ \E header \in Headers : RequestGetUserByUsername(header)

\* the whole API, one registration at a time
Next == AccountsNext(1, ApiRegisterBodies) \/ ProtectedNext

Spec == Init /\ [][Next]_vars

\* the public routes under concurrent registrations
ConcNext == AccountsNext(NumProcs, CredentialBodies)

ConcSpec == Init /\ [][ConcNext]_vars

\* the whole API and a route that puts AdminOnly first in its chain
GateNext == Next \/ \E header \in Headers : RequestAdminOnlyAlone(header)

GateSpec == Init /\ [][GateNext]_vars

\* the task routes alone, requested with a token that verifies with role
\* admin (JWTs are verified without the user store), one task more than in
\* Spec and every id that can be handed out as a path parameter
AdminHeader == <<"Bearer", Signed(jwtSecret, "HS256", AdminClaims)>>

TaskLimit == MaxTasks + 1

AllTaskParams ==
    {HexOf[n] : n \in (TaskIDBase + 1)..(TaskIDBase + TaskLimit + 1)} \cup {"invalid-id"}

TaskNext ==
    \/ GetTasks(Serve("GetTasks", AdminHeader))
    \/ \E id \in AllTaskParams : GetTaskByID(Serve("GetTaskByID", AdminHeader), id)
    \/ \E body \in JSONBodies :
           CreateTask(Serve("CreateTask", AdminHeader), TaskLimit, body.bound, body.task)
    \/ \E id \in AllTaskParams, body \in JSONBodies :
           UpdateTask(Serve("UpdateTask", AdminHeader), id, body.bound, body.task)
    \/ \E id \in AllTaskParams : DeleteTask(Serve("DeleteTask", AdminHeader), id)

TaskSpec == Init /\ [][TaskNext]_vars

\* the task_manager program's public routes
LegacyNext ==
    \/ controllersRegisterUser(FALSE, ZeroUser)
    \/ \E user \in CredentialBodies : controllersRegisterUser(TRUE, user)
    \/ controllersLoginUser(FALSE, ZeroUser)
    \/ \E user \in CredentialBodies : controllersLoginUser(TRUE, user)

LegacySpec == Init /\ [][LegacyNext]_vars

(***************************************************************************)
(* The store fails.  Every repository method runs its collection calls     *)
(* under context.WithTimeout(5s); a call that times out, or that the       *)
(* driver cannot complete, returns an error that is neither nil nor        *)
(* ErrNoDocuments.  A response records the failed call by its error, after *)
(* the name of the call.  A failed call leaves the collection as it was;   *)
(* the calls the method made before it keep their effect.                  *)
(***************************************************************************)
StoreError == "context deadline exceeded"

FailedAt(names, k) == SubSeq(names, 1, k) \o <<StoreError>>

StoreFailed(response) ==
    /\ response.calls # <<>>
    /\ response.calls[Len(response.calls)] = StoreError

\* RegisterUser returns the error of FindOne (line 59-61), CountDocuments
\* (64-67) or InsertOne (83-86); Controller.Register answers every error 400.
\* The id of line 81 is handed out before InsertOne fails.
RegisterStoreError(user) ==
    \E k \in 1..3 :
        /\ ~FieldsEmpty(user)
        /\ k > 1 => ~UsernameTaken(users, user)
        /\ IF k = 3
           THEN /\ oid.users < MaxUsers
                /\ oid' = [oid EXCEPT !.users = @ + 1]
           ELSE oid' = oid
        /\ last' = RegisterResponse(user, StatusBadRequest, StoreError, ZeroUser,
                       FailedAt(<<"FindOne", "CountDocuments", "InsertOne">>, k))
        /\ UNCHANGED <<users, tasks, reg, issued>>

\* LoginUser replaces every error of FindOne (100-104);
\* Controller.Login answers every error of LoginUser 401.
LoginStoreError(user) ==
    /\ user.username # ""
    /\ last' = [Blank EXCEPT !.route = "POST /login", !.ran = TRUE, !.in = user,
                             !.status = StatusUnauthorized, !.key = "error",
                             !.error = "invalid username or password",
                             !.calls = FailedAt(<<"FindOne">>, 1)]
    /\ UNCHANGED <<users, tasks, oid, reg, issued>>

GetTasksStoreError(c) ==
    /\ last' = [Passed("GetTasks", c) EXCEPT
                   !.status = StatusInternalServerError, !.key = "error",
                   !.error = StoreError, !.calls = FailedAt(<<"Find">>, 1)]
    /\ UNCHANGED <<users, tasks, oid, reg, issued>>

\* GetTaskByID returns the error of FindOne when it is not ErrNoDocuments
\* (line 83); the controller answers what is not "not found" with 400.
GetTaskByIDStoreError(c, id) ==
    /\ ObjectIDFromHex(id).err = ""
    /\ last' = [Passed("GetTaskByID", c) EXCEPT
                   !.param = id, !.status = StatusBadRequest, !.key = "error",
                   !.error = StoreError, !.calls = FailedAt(<<"FindOne">>, 1)]
    /\ UNCHANGED <<users, tasks, oid, reg, issued>>

\* the id of line 90 is handed out before InsertOne fails
CreateTaskStoreError(c, limit, newTask) ==
    /\ oid.tasks < limit
    /\ oid' = [oid EXCEPT !.tasks = @ + 1]
    /\ last' = [Passed("CreateTask", c) EXCEPT
                   !.taskIn = newTask, !.status = StatusInternalServerError,
                   !.key = "error", !.error = StoreError,
                   !.calls = FailedAt(<<"InsertOne">>, 1)]
    /\ UNCHANGED <<users, tasks, reg, issued>>

\* UpdateOne fails (114-117), or it matched and wrote and the FindOne of the
\* re-read fails (123, 83): the controller answers both 400 under "Error".
UpdateTaskStoreError(c, id, updatedTask) ==
    LET res == UpdateTaskRepo(tasks, id, updatedTask)
        got == [Passed("UpdateTask", c) EXCEPT
                   !.param = id, !.taskIn = updatedTask,
                   !.status = StatusBadRequest, !.key = "Error",
                   !.error = StoreError]
    IN  /\ ObjectIDFromHex(id).err = ""
        /\ \/ /\ tasks' = tasks
              /\ last' = [got EXCEPT !.calls = FailedAt(<<"UpdateOne">>, 1)]
           \/ /\ res.err = ""
              /\ tasks' = res.coll
              /\ last' = [got EXCEPT !.calls = FailedAt(<<"UpdateOne", "FindOne">>, 2)]
        /\ UNCHANGED <<users, oid, reg, issued>>

DeleteTaskStoreError(c, id) ==
    /\ ObjectIDFromHex(id).err = ""
    /\ last' = [Passed("DeleteTask", c) EXCEPT
                   !.param = id, !.status = StatusBadRequest, !.key = "error",
                   !.error = StoreError, !.calls = FailedAt(<<"DeleteOne">>, 1)]
    /\ UNCHANGED <<users, tasks, oid, reg, issued>>

\* UpdateOne fails (133-136), or it matched and wrote and FindOne fails
\* (143-146): the controller answers what is neither "invalid user ID" nor
\* "user not found" with 500.
PromoteStoreError(c, id) ==
    LET res == PromoteUser(users, id)
        got == [Passed("Promote", c) EXCEPT
                   !.param = id, !.status = StatusInternalServerError,
                   !.key = "error", !.error = StoreError]
    IN  /\ ObjectIDFromHex(id).err = ""
        /\ \/ /\ users' = users
              /\ last' = [got EXCEPT !.calls = FailedAt(<<"UpdateOne">>, 1)]
           \/ /\ res.err = ""
              /\ users' = res.coll
              /\ last' = [got EXCEPT !.calls = FailedAt(<<"UpdateOne", "FindOne">>, 2)]
        /\ UNCHANGED <<tasks, oid, reg, issued>>

GetUserByUsernameStoreError(c, username) ==
    /\ last' = [Passed("GetUserByUsername", c) EXCEPT
                   !.param = username, !.status = StatusInternalServerError,
                   !.key = "error", !.error = StoreError,
                   !.calls = FailedAt(<<"FindOne">>, 1)]
    /\ UNCHANGED <<users, tasks, oid, reg, issued>>

FailBodies == {user \in CredentialBodies : user.password \in {"", "pw1"}}

\* requests of an administrator and of the public routes, each store call
\* of which may fail
StoreErrorNext ==
    \/ \E user \in FailBodies : RegisterStoreError(user)
    \/ \E user \in FailBodies : LoginStoreError(user)
    \/ GetTasksStoreError(Serve("GetTasks", AdminHeader))
    \/ \E id \in AllTaskParams : GetTaskByIDStoreError(Serve("GetTaskByID", AdminHeader), id)
    \/ \E task \in TaskBodies :
           CreateTaskStoreError(Serve("CreateTask", AdminHeader), TaskLimit, task)
    \/ \E id \in AllTaskParams, task \in TaskBodies :
           UpdateTaskStoreError(Serve("UpdateTask", AdminHeader), id, task)
    \/ \E id \in AllTaskParams : DeleteTaskStoreError(Serve("DeleteTask", AdminHeader), id)
    \/ \E id \in UserParams : PromoteStoreError(Serve("Promote", AdminHeader), id)
    \/ \E username \in Usernames \ {""} :
           GetUserByUsernameStoreError(Serve("GetUserByUsername", AdminHeader), username)

UsersNext ==
    \/ \E id \in UserParams : Promote(Serve("Promote", AdminHeader), id)
    \/ \E username \in Usernames \ {""} :
           GetUserByUsername(Serve("GetUserByUsername", AdminHeader), username)

FailNext == AccountsNext(1, FailBodies) \/ TaskNext \/ UsersNext \/ StoreErrorNext

FailSpec == Init /\ [][FailNext]_vars

(***************************************************************************)
(* A client that keeps the token of a login and presents it later, while   *)
(* an administrator promotes users                                         *)
(***************************************************************************)
KeptHeaders == {<<"Bearer", t>> : t \in issued}

TokenNext ==
    \/ AccountsNext(1, FailBodies)
    \/ KeepToken
    \/ \E id \in UserParams : Promote(Serve("Promote", AdminHeader), id)
    \/ \E header \in KeptHeaders : RequestCreateTask(header)
    \/ \E header \in KeptHeaders : RequestPromote(header)

TokenSpec == Init /\ [][TokenNext]_vars

(***************************************************************************)
(* POST /register served alone: the three collection calls of RegisterUser *)
(* with no other request between them, as one step.  The body is the JSON  *)
(* of domain.User, whose id and role fields a client can set.              *)
(***************************************************************************)
RegisterUserRepoTrustsBody(coll, user, handedOut) ==
    IF FieldsEmpty(user)
    THEN [err |-> "fields cannot be empty", user |-> ZeroUser, coll |-> coll,
          calls |-> <<>>]
    ELSE IF UsernameTaken(coll, user)
    THEN [err |-> "username already taken", user |-> ZeroUser, coll |-> coll,
          calls |-> <<"FindOne">>]
    ELSE LET stored == [user EXCEPT
                           !.role = IF user.role # "" THEN user.role
                                    ELSE RoleForCount(CountDocuments(coll)),
                           !.password = HashPassword(user.password),
                           !.id = IF user.id # NilObjectID THEN user.id
                                  ELSE NewObjectID(0, handedOut)]
         IN  [err |-> "", user |-> [stored EXCEPT !.password = ""],
              coll |-> InsertOne(coll, stored),
              calls |-> <<"FindOne", "CountDocuments", "InsertOne">>]

RegisterUserRepo(coll, user, handedOut) ==
    IF FieldsEmpty(user)
    THEN [err |-> "fields cannot be empty", user |-> ZeroUser, coll |-> coll,
          calls |-> <<>>]
    ELSE IF UsernameTaken(coll, user)
    THEN [err |-> "username already taken", user |-> ZeroUser, coll |-> coll,
          calls |-> <<"FindOne">>]
    ELSE LET stored == [user EXCEPT
                           !.role = RoleForCount(CountDocuments(coll)),
                           !.password = HashPassword(user.password),
                           !.id = NewObjectID(0, handedOut)]
         IN  [err |-> "", user |-> [stored EXCEPT !.password = ""],
              coll |-> InsertOne(coll, stored),
              calls |-> <<"FindOne", "CountDocuments", "InsertOne">>]

\* Controller.Register after a successful bind
Register(user) ==
    LET res == RegisterUserRepo(users, user, oid.users)
    IN  IF res.err # ""
        THEN /\ last' = RegisterResponse(user, StatusBadRequest, res.err, ZeroUser,
                                         res.calls)
             /\ UNCHANGED <<users, tasks, oid, reg, issued>>
        ELSE /\ oid.users < MaxUsers
             /\ users' = res.coll
             /\ oid' = [oid EXCEPT !.users = @ + 1]
             /\ last' = RegisterResponse(user, StatusCreated, "", res.user, res.calls)
             /\ UNCHANGED <<tasks, reg, issued>>

\* the id of a body: none, the id of the first stored user, or an id that
\* NewObjectID never returns
SubmittedIDs == {NilObjectID, NewObjectID(0, 0), NewObjectID(0, MaxUsers)}

SubmittedBodies ==
    {User(id, u, p, r) : id \in SubmittedIDs, u \in Usernames \ {""},
                         p \in {"", "pw1"}, r \in SubmittedRoles}

RegisterNext ==
    \/ RegisterBadBody
    \/ \E user \in SubmittedBodies : Register(user)
    \/ LoginBadBody
    \/ \E user \in FailBodies : Login(user)

RegisterSpec == Init /\ [][RegisterNext]_vars

(***************************************************************************)
(* TaskRepository.UpdateTask call by call: UpdateOne, then the FindOne of  *)
(* GetTaskByID (line 123).  Other requests run between the two; a request  *)
(* that has written stays in `reg` until its re-read, with the path        *)
(* parameter, the body and whether UpdateOne changed the document.         *)
(***************************************************************************)
UpdateCall(id, updatedTask, modified) ==
    [pc |-> "GetTaskByID", param |-> id, taskIn |-> updatedTask, modified |-> modified]

\* Controller.UpdateTask up to the return of UpdateOne
UpdateTaskUpdateOne(c, id, bound, updatedTask) ==
    LET objID == ObjectIDFromHex(id)
        res == UpdateOne(tasks, "id", objID.id,
                   [title |-> updatedTask.title,
                    description |-> updatedTask.description,
                    due_date |-> updatedTask.due_date,
                    status |-> updatedTask.status])
        got == [Passed("UpdateTask", c) EXCEPT !.param = id]
    IN  /\ InRegister < NumProcs
        /\ IF ~bound
           THEN /\ last' = [got EXCEPT !.status = StatusBadRequest, !.key = "error",
                                       !.error = BindError]
                /\ UNCHANGED <<tasks, reg>>
           ELSE IF objID.err # ""
           THEN /\ last' = [got EXCEPT !.taskIn = updatedTask,
                               !.status = StatusBadRequest, !.key = "Error",
                               !.error = "invalid id format"]
                /\ UNCHANGED <<tasks, reg>>
           ELSE IF res.MatchedCount = 0
           THEN /\ last' = [got EXCEPT !.taskIn = updatedTask,
                               !.status = StatusNotFound, !.key = "message",
                               !.error = "Task not Found", !.calls = <<"UpdateOne">>]
                /\ UNCHANGED <<tasks, reg>>
           ELSE /\ tasks' = res.coll
                /\ reg' = Enter(UpdateCall(id, updatedTask, res.coll # tasks))
                /\ last' = last
        /\ UNCHANGED <<users, oid, issued>>

\* the re-read and the response of Controller.UpdateTask
UpdateTaskGetTaskByID(c, call) ==
    LET res == GetTaskByIDRepo(tasks, call.param)
        got == [Passed("UpdateTask", c) EXCEPT
                   !.param = call.param, !.taskIn = call.taskIn,
                   !.calls = <<"UpdateOne">> \o res.calls]
    IN  /\ call \in BagToSet(reg)
        /\ reg' = Leave(call)
        /\ last' = IF res.err = "not found"
                   THEN [got EXCEPT !.status = StatusNotFound, !.key = "message",
                                    !.error = "Task not Found"]
                   ELSE [got EXCEPT !.status = StatusOK, !.taskOut = res.task]
        /\ UNCHANGED <<users, tasks, oid, issued>>

\* the FindOne of the re-read fails
UpdateTaskGetTaskByIDStoreError(c, call) ==
    /\ call \in BagToSet(reg)
    /\ reg' = Leave(call)
    /\ last' = [Passed("UpdateTask", c) EXCEPT
                   !.param = call.param, !.taskIn = call.taskIn,
                   !.status = StatusBadRequest, !.key = "Error",
                   !.error = StoreError,
                   !.calls = FailedAt(<<"UpdateOne", "FindOne">>, 2)]
    /\ UNCHANGED <<users, tasks, oid, issued>>

RaceParams == {HexOf[n] : n \in (TaskIDBase + 1)..(TaskIDBase + MaxTasks)} \cup {"invalid-id"}

RaceNext ==
    \/ \E body \in JSONBodies :
           CreateTask(Serve("CreateTask", AdminHeader), MaxTasks, body.bound, body.task)
    \/ \E id \in RaceParams, body \in JSONBodies :
           UpdateTaskUpdateOne(Serve("UpdateTask", AdminHeader), id, body.bound, body.task)
    \/ \E call \in BagToSet(reg) :
           UpdateTaskGetTaskByID(Serve("UpdateTask", AdminHeader), call)
    \/ \E call \in BagToSet(reg) :
           UpdateTaskGetTaskByIDStoreError(Serve("UpdateTask", AdminHeader), call)
    \/ \E id \in RaceParams : DeleteTask(Serve("DeleteTask", AdminHeader), id)
    \/ \E id \in RaceParams : GetTaskByID(Serve("GetTaskByID", AdminHeader), id)

RaceSpec == Init /\ [][RaceNext]_vars

(***************************************************************************)
(* The in-memory task store of task_manager/data/task_service.go: a map    *)
(* from int to Task and the counter nextID, both behind the mutex mu.      *)
(* Every function holds mu from its first statement to its return, so a    *)
(* call is one step and concurrent calls run in the order they take the    *)
(* lock.  `tasks` is the map; oid.tasks counts the ids handed out.         *)
(***************************************************************************)
nextID == oid.tasks + 1

\* a call and what it returned: the argument, the returned task and the
\* returned bool (in the field ran)
Returned(function, id, task, result, found) ==
    [Blank EXCEPT !.route = function, !.taskIn = [task EXCEPT !.id = id],
                  !.taskOut = result, !.ran = found]

MapDelete(m, key) == [k \in DOMAIN m \ {key} |-> m[k]]

MapSet(m, key, value) == [k \in DOMAIN m \cup {key} |-> IF k = key THEN value ELSE m[k]]

dataCreateTaskReusesID(limit, task) ==
    LET id == CHOOSE k \in 1..(limit + 1) : k \notin DOMAIN tasks
        created == [task EXCEPT !.id = id]
    IN  /\ oid.tasks < limit
        /\ tasks' = MapSet(tasks, id, created)
        /\ oid' = [oid EXCEPT !.tasks = @ + 1]
        /\ last' = Returned("data.CreateTask", task.id, task, created, TRUE)
        /\ UNCHANGED <<users, reg, issued>>

dataCreateTask(limit, task) ==
    LET created == [task EXCEPT !.id = nextID]
    IN  /\ oid.tasks < limit
        /\ tasks' = MapSet(tasks, nextID, created)
        /\ oid' = [oid EXCEPT !.tasks = @ + 1]
        /\ last' = Returned("data.CreateTask", task.id, task, created, TRUE)
        /\ UNCHANGED <<users, reg, issued>>

dataUpdateTask(id, updated) ==
    LET found == id \in DOMAIN tasks
        stored == [updated EXCEPT !.id = id]
    IN  /\ IF ~found
           THEN /\ tasks' = tasks
                /\ last' = Returned("data.UpdateTask", id, updated, ZeroTask, FALSE)
           ELSE /\ tasks' = MapSet(tasks, id, stored)
                /\ last' = Returned("data.UpdateTask", id, updated, stored, TRUE)
        /\ UNCHANGED <<users, oid, reg, issued>>

dataDeleteTask(id) ==
    LET found == id \in DOMAIN tasks
    IN  /\ tasks' = IF found THEN MapDelete(tasks, id) ELSE tasks
        /\ last' = Returned("data.DeleteTask", id, ZeroTask, ZeroTask, found)
        /\ UNCHANGED <<users, oid, reg, issued>>

dataGetTaskByID(id) ==
    LET found == id \in DOMAIN tasks
    IN  /\ last' = Returned("data.GetTaskByID", id, ZeroTask,
                            IF found THEN tasks[id] ELSE ZeroTask, found)
        /\ UNCHANGED <<users, tasks, oid, reg, issued>>

\* calls of CreateTask in a run, and the ids the callers pass
MemLimit == MaxTasks + 2

MemIDs == 0..(MemLimit + 1)

MemBodies == {[task EXCEPT !.id = id] : task \in TaskBodies, id \in {0, 1}}

MemNext ==
    \/ \E task \in MemBodies : dataCreateTask(MemLimit, task)
    \/ \E id \in MemIDs, task \in MemBodies : dataUpdateTask(id, task)
    \/ \E id \in MemIDs : dataDeleteTask(id)
    \/ \E id \in MemIDs : dataGetTaskByID(id)

MemSpec == Init /\ [][MemNext]_vars

(***************************************************************************)
(* Properties                                                              *)
(***************************************************************************)
Created(route) == last.route = route /\ last.status = StatusCreated

Stored(username) == \E i \in 1..Len(users) : users[i].username = username

\* C1: with registrations one after another from an empty store, the first
\* successful register stores and returns role admin and every later one
\* stores and returns role user.  (A 201 of POST /register is the latest
\* response exactly while the document it inserted is the newest one.)
C1_FirstAdminThenUser ==
    Created("POST /register") =>
        LET stored == users[Len(users)]
        IN  /\ stored.id = last.out.id
            /\ stored.role = last.out.role
            /\ last.out.role = (IF Len(users) = 1 THEN "admin" ELSE "user")

C1_Witness ==
    /\ Created("POST /register")
    /\ Len(users) = 2
    /\ users[1].role = "admin"
    /\ last.out.role = "user"

\* C2: after any interleaving of register calls, no two stored user
\* records have the same username.
C2_UniqueUsernames ==
    \A i, j \in 1..Len(users) : users[i].username = users[j].username => i = j

RegisterRefused(user) ==
    /\ last' = RegisterResponse(user, StatusBadRequest, "username already taken",
                                ZeroUser, <<"FindOne">>)
    /\ users' = users
    /\ reg' = reg

\* C3 as amended: if a user with username u is stored, register(u, p) fails
\* with "username already taken" for every non-empty password p, equal to
\* the stored one or not, and the user store is left unchanged.
C3_TakenForEveryNonEmptyPassword ==
    [][\A user \in CredentialBodies :
          (user.password # "" /\ Stored(user.username) /\ RegisterUser(NumProcs, user))
              => RegisterRefused(user)]_vars

\* C3 as stated: the same for every password p, the empty one included.
C3_TakenForEveryPassword ==
    [][\A user \in CredentialBodies :
          (Stored(user.username) /\ RegisterUser(NumProcs, user))
              => RegisterRefused(user)]_vars

C3_Witness ==
    /\ last.route = "POST /register"
    /\ last.error = "username already taken"
    /\ \E i \in 1..Len(users) :
          /\ users[i].username = last.in.username
          /\ users[i].password # HashPassword(last.in.password)

\* C4: for every non-empty username and password, a login with the
\* credentials of a successful register succeeds, and ValidateToken of the
\* returned token yields the _id, username and role of the stored user.
C4_RegisterThenLogin ==
    last.route = "POST /login" =>
        \A i \in 1..Len(users) :
            (/\ users[i].username = last.in.username
             /\ users[i].password = HashPassword(last.in.password))
                => /\ last.status = StatusOK
                   /\ ValidateToken(last.token).err = ""
                   /\ ValidateToken(last.token).claims =
                          ClaimsOf(Str(Hex(users[i].id)), Str(users[i].username),
                                   Str(users[i].role))

\* C5: a login with a stored username and a wrong password and a login
\* with a username that is not stored get the identical reply: status 401
\* and the error "invalid username or password".
C5_SameFailure ==
    \A a, b \in CredentialBodies :
        (/\ a.username # "" /\ ~Stored(a.username)
         /\ Stored(b.username)
         /\ ComparePassword(FindOne(users, "username", b.username).doc.password,
                            b.password) # "")
            => /\ LoginReply(users, a) = LoginReply(users, b)
               /\ LoginReply(users, b).status = StatusUnauthorized
               /\ LoginReply(users, b).error = "invalid username or password"

C5_Witness ==
    /\ last.route = "POST /login"
    /\ last.status = StatusUnauthorized
    /\ Stored(last.in.username)
    /\ \E u \in Usernames \ {""} : ~Stored(u)

ProtectedRoutes == {RouteName[handler] : handler \in DOMAIN RouteName}

\* the token of a request's Authorization header verifies and carries `role`
BearerRole(header, role) ==
    /\ HasPrefixBearer(header)
    /\ ValidateToken(TrimPrefixBearer(header)).err = ""
    /\ ValidateToken(TrimPrefixBearer(header)).claims["role"] = Str(role)

RoleChanged == \E i \in 1..Len(users) : users'[i].role # users[i].role

\* C6: a task is created, updated or deleted and a user is promoted only by
\* a request whose bearer token verifies and carries role admin; a request
\* with a valid token of role user on POST/PUT/DELETE /tasks or on
\* POST /users/{id}/promote gets 403 and leaves both stores unchanged.
C6_AdminOnlyMutations ==
    [][/\ (tasks' # tasks \/ RoleChanged)
            => (last'.route \in AdminRoutes /\ BearerRole(last'.header, "admin"))
       /\ (last'.route \in AdminRoutes /\ last'.ran)
            => BearerRole(last'.header, "admin")
       /\ (last'.route \in AdminRoutes /\ BearerRole(last'.header, "user"))
            => (/\ last'.status = StatusForbidden
                /\ ~last'.ran
                /\ tasks' = tasks
                /\ users' = users)]_vars

C6_Witness ==
    /\ last.route \in AdminRoutes
    /\ BearerRole(last.header, "user")
    /\ last.status = StatusForbidden
    /\ Len(tasks) = 1

\* C7: on every protected route a request with no Authorization header, or
\* with one that does not start with "Bearer ", is answered 401, the
\* handler does not run and no user_id, username or role is put into the
\* context.
C7_NoBearerIs401 ==
    (last.route \in ProtectedRoutes /\ ~HasPrefixBearer(last.header))
        => /\ last.status = StatusUnauthorized
           /\ ~last.ran
           /\ last.calls = <<>>
           /\ last.ctx = EmptyContext

C7_Witness ==
    /\ last.route \in ProtectedRoutes
    /\ Len(last.header) = 2
    /\ last.header[1] = "Basic"
    /\ ValidateToken(last.header[2]).err = ""
    /\ last.status = StatusUnauthorized

\* the responses of requests that reached AdminOnly: on the route that has
\* it alone, and on an admin route once AuthMiddleware has set the context
ReachedAdminOnly ==
    \/ last.route = "AdminOnly"
    \/ last.route \in AdminRoutes /\ last.ctx["user_id"] # Absent

\* C8: AdminOnly lets a request through only when the context role equals
\* admin; when the role is absent or any other value (nil and non-string
\* included) it answers 403 and the handler does not run; it never answers
\* 500, which is what a panic would give.
C8_AdminOnlyGate ==
    ReachedAdminOnly =>
        IF last.ctx["role"] = Str("admin")
        THEN last.ran
        ELSE /\ last.status = StatusForbidden
             /\ last.error = "Admin access required"
             /\ ~last.ran

C8_Witness ==
    /\ last.route = "AdminOnly"
    /\ HasPrefixBearer(last.header)
    /\ last.ctx["role"] = Absent
    /\ last.status = StatusForbidden

C8_WitnessNilRole ==
    /\ last.route \in AdminRoutes
    /\ last.ctx["role"] = Null
    /\ last.status = StatusForbidden

\* C9: under any interleaving of concurrent register calls from an empty
\* store, the first user record inserted has role admin and every other
\* record has role user.
C9_OnlyFirstIsAdmin ==
    \A i \in 1..Len(users) : users[i].role = (IF i = 1 THEN "admin" ELSE "user")

RegisterRoutes == {"POST /register", "task_manager POST /register"}

\* C10: register with an empty username or an empty password fails with
\* "fields cannot be empty" (HTTP 400) before any store access, and no user
\* record is created from such a request.
C10_EmptyFieldRejected ==
    /\ (/\ last.route \in RegisterRoutes
        /\ last.error # BindError
        /\ (last.in.username = "" \/ last.in.password = ""))
           => /\ last.status = StatusBadRequest
              /\ last.error = "fields cannot be empty"
              /\ last.calls = <<>>
    /\ \A i \in 1..Len(users) :
          /\ users[i].username # ""
          /\ users[i].password \notin {HashPassword(""),
                                       GenerateFromPassword(GenerateFromPassword(""))}
    /\ \A call \in BagToSet(reg) : call.user.username # "" /\ call.user.password # ""

\* a register request with an empty password that was answered 200
C10_LegacyAccepted ==
    /\ last.route = "task_manager POST /register"
    /\ last.in.password = ""
    /\ last.status = StatusOK

\* C11: the plaintext password is never stored and never returned: every
\* stored user holds the output of HashPassword of a submitted password and
\* not the password itself, the user returned by a successful register and
\* by a successful promote has an empty password, and the login response
\* carries id, username and token only.
C11_NoPlaintextPassword ==
    /\ \A i \in 1..Len(users) :
          /\ users[i].password \notin Passwords
          /\ \E p \in Passwords \ {""} : users[i].password = HashPassword(p)
    /\ (last.route \in {"POST /register", "POST /users/:id/promote"}
           /\ last.status \in {StatusOK, StatusCreated})
          => (last.out.id # NilObjectID /\ last.out.password = "")
    /\ (last.route = "POST /login" /\ last.status = StatusOK)
          => /\ last.out = User(last.out.id, last.in.username, "", "")
             /\ last.token # NoToken

C11_Witness ==
    /\ last.route = "POST /users/:id/promote"
    /\ last.status = StatusOK
    /\ last.out.password = ""
    /\ \E i \in 1..Len(users) :
          users[i].id = last.out.id /\ users[i].password = HashPassword("pw1")

PromoteRoute == "POST /users/:id/promote"

StoredID(coll, id) == \E i \in 1..Len(coll) : coll[i].id = id

\* C12: promote with an id that does not parse fails with "invalid user ID"
\* (400), and with a well-formed id that matches no stored user fails with
\* "user not found" (404); in both cases no user record is changed.
C12_PromoteErrors ==
    [][(last'.route = PromoteRoute /\ last'.ran) =>
          LET objID == ObjectIDFromHex(last'.param)
          IN  /\ objID.err # ""
                   => /\ last'.status = StatusBadRequest
                      /\ last'.error = "invalid user ID"
                      /\ last'.calls = <<>>
                      /\ users' = users
              /\ (objID.err = "" /\ ~StoredID(users, objID.id))
                   => /\ last'.status = StatusNotFound
                      /\ last'.error = "user not found"
                      /\ users' = users]_vars

C12_Witness ==
    /\ last.route = PromoteRoute
    /\ last.status = StatusNotFound
    /\ last.error = "user not found"
    /\ ObjectIDFromHex(last.param).err = ""
    /\ Len(users) = 2

C12_WitnessInvalid ==
    /\ last.route = PromoteRoute
    /\ last.status = StatusBadRequest
    /\ last.param = "invalid-id"
    /\ Len(users) = 2

\* C13: promote is idempotent and changes only the role of its target: a
\* successful promote leaves the user store as it was but for the role of
\* the user with that id, which is admin afterwards (so the store is
\* unchanged when the user was admin already), and returns that user.
C13_PromoteOnlyRole ==
    [][(last'.route = PromoteRoute /\ last'.status = StatusOK) =>
          \E i \in 1..Len(users) :
              /\ users[i].id = ObjectIDFromHex(last'.param).id
              /\ users' = [users EXCEPT ![i].role = "admin"]
              /\ users[i].role = "admin" => users' = users
              /\ last'.out = [users'[i] EXCEPT !.password = ""]]_vars

\* the user registered first, admin since its registration, is promoted
C13_Witness ==
    /\ last.route = PromoteRoute
    /\ last.status = StatusOK
    /\ Len(users) = 2
    /\ last.out.id = users[1].id
    /\ users[2].role = "user"

C13_WitnessUser ==
    /\ last.route = PromoteRoute
    /\ last.status = StatusOK
    /\ Len(users) = 2
    /\ last.out.id = users[2].id
    /\ users[2].role = "admin"

C14_WitnessEmptyTitle ==
    /\ last.route = "POST /tasks"
    /\ last.status = StatusCreated
    /\ last.taskIn.title = ""
    /\ tasks = <<last.taskOut>>

\* C15: a successful UpdateTask(id, patch) sets the task's title,
\* description, due_date and status to the patch's values (an empty one
\* overwrites the old value), keeps the task's id whatever id the patch
\* carries, leaves every other task unchanged and returns the record as
\* stored.
C15_UpdateOverwritesFour ==
    [][(last'.route = "PUT /tasks/:id" /\ last'.status = StatusOK) =>
          \E i \in 1..Len(tasks) :
              /\ tasks[i].id = ObjectIDFromHex(last'.param).id
              /\ tasks' = [tasks EXCEPT ![i] = [last'.taskIn EXCEPT !.id = tasks[i].id]]
              /\ last'.taskOut = tasks'[i]]_vars

\* the first of two stored tasks has been emptied by a patch, the second
\* still holds what it was created with
C15_Witness ==
    /\ last.route = "PUT /tasks/:id"
    /\ last.status = StatusOK
    /\ Len(tasks) = 2
    /\ last.taskOut = tasks[1]
    /\ tasks[1].title = ""
    /\ tasks[2].title = "Write tests"

\* the patch carried another id than the task's
C15_WitnessPatchID ==
    /\ last.route = "PUT /tasks/:id"
    /\ last.status = StatusOK
    /\ last.taskIn.id \notin {NilObjectID, last.taskOut.id}
    /\ last.taskOut = [last.taskIn EXCEPT !.id = last.taskOut.id]
    /\ Len(tasks) = 2

Without(coll, i) == SubSeq(coll, 1, i - 1) \o SubSeq(coll, i + 1, Len(coll))

\* C16: after a successful DeleteTask(id), GetTaskByID(id) and a second
\* DeleteTask(id) return not found; DeleteTask of an id that is not stored
\* returns not found and removes nothing; a successful delete removes
\* exactly the one task with that id.
C16_DeleteOnce ==
    [][(/\ last'.route = "DELETE /tasks/:id" /\ last'.ran /\ last' # last
        /\ ObjectIDFromHex(last'.param).err = "") =>
          LET id == ObjectIDFromHex(last'.param).id
          IN  IF StoredID(tasks, id)
              THEN /\ last'.status = StatusNoContent
                   /\ \E i \in 1..Len(tasks) :
                         tasks[i].id = id /\ tasks' = Without(tasks, i)
                   /\ ~StoredID(tasks', id)
                   /\ GetTaskByIDRepo(tasks', last'.param).err = "not found"
                   /\ DeleteTaskRepo(tasks', last'.param).err = "not found"
                   /\ DeleteTaskRepo(tasks', last'.param).coll = tasks'
              ELSE /\ last'.status = StatusNotFound
                   /\ last'.error = "Task not found"
                   /\ tasks' = tasks]_vars

\* a second delete of an id that was stored, answered 404 while another
\* task stays stored
C16_Witness ==
    /\ last.route = "DELETE /tasks/:id"
    /\ last.status = StatusNotFound
    /\ last.param = Hex(NewObjectID(TaskIDBase, 0))
    /\ oid.tasks = 2
    /\ Len(tasks) = 1

C16_WitnessDeleted ==
    /\ last.route = "DELETE /tasks/:id"
    /\ last.status = StatusNoContent
    /\ Len(tasks) = 1

TaskIDRoutes == {"GET /tasks/:id", "PUT /tasks/:id", "DELETE /tasks/:id"}

\* C17: GET /tasks/{id} with an id that does not parse answers 400
\* "invalid id format" without querying the store, and with a well-formed id
\* that matches no task answers 404 "Task not found"; UpdateTask and
\* DeleteTask make the same id check before they access the store.
C17_IDFormatChecked ==
    /\ (/\ last.route \in TaskIDRoutes /\ last.ran /\ last.error # BindError
        /\ ObjectIDFromHex(last.param).err # "")
           => /\ last.status = StatusBadRequest
              /\ last.error = "invalid id format"
              /\ last.calls = <<>>
    /\ (/\ last.route = "GET /tasks/:id" /\ last.ran
        /\ ObjectIDFromHex(last.param).err = ""
        /\ ~StoredID(tasks, ObjectIDFromHex(last.param).id))
           => /\ last.status = StatusNotFound
              /\ last.error = "Task not found"
              /\ last.calls = <<"FindOne">>

C17_Witness ==
    /\ last.route = "GET /tasks/:id"
    /\ last.param = "invalid-id"
    /\ last.status = StatusBadRequest
    /\ Len(tasks) = 1

C17_WitnessNotFound ==
    /\ last.route = "GET /tasks/:id"
    /\ last.status = StatusNotFound
    /\ Len(tasks) = 1

C17_WitnessUpdate ==
    /\ last.route = "PUT /tasks/:id"
    /\ last.param = "invalid-id"
    /\ last.error = "invalid id format"
    /\ Len(tasks) = 1


\* C18: GET /tasks answers 200 with an empty array, not null, when no task is
\* stored, and with each stored task exactly once when tasks are stored.
C18_EmptyListIsArray ==
    (last.route = "GET /tasks" /\ last.ran)
        => /\ last.status = StatusOK
           /\ ~last.list.nil
           /\ last.list.elems = tasks

\* The part of C18 the repository keeps: the listed elements are the stored
\* tasks, each once, whether or not the slice that carries them is nil.
C18_ListsEachStoredOnce ==
    (last.route = "GET /tasks" /\ last.ran)
        => /\ last.status = StatusOK
           /\ last.list.elems = tasks
           /\ (last.list.nil <=> (Len(tasks) = 0))


ValidBearer(header) ==
    /\ HasPrefixBearer(header)
    /\ ValidateToken(TrimPrefixBearer(header)).err = ""

\* C19: GET /users/{username} is served to every request whose token
\* verifies, whatever role the token carries, and answers a stored username
\* with the stored record, password hash included; POST /users/{id}/promote
\* runs only for a token of role admin.
C19_GetUserAnyRole ==
    /\ (last.route = "GET /users/:username" /\ ValidBearer(last.header))
          => /\ last.ran
             /\ last.calls = <<"FindOne">>
             /\ Stored(last.param)
                   => /\ last.status = StatusOK
                      /\ last.out = FindOne(users, "username", last.param).doc
                      /\ \E p \in Passwords \ {""} :
                            last.out.password = HashPassword(p)
    /\ (last.route = PromoteRoute /\ ValidBearer(last.header))
          => (last.ran <=> BearerRole(last.header, "admin"))
    /\ (last.route = PromoteRoute /\ ValidBearer(last.header) /\ ~last.ran)
          => last.status = StatusForbidden

C19_Witness ==
    /\ last.route = "GET /users/:username"
    /\ BearerRole(last.header, "user")
    /\ last.status = StatusOK
    /\ last.out.role = "admin"
    /\ last.out.password = HashPassword("pw1")

C19_WitnessNoRole ==
    /\ last.route = "GET /users/:username"
    /\ ValidBearer(last.header)
    /\ ValidateToken(TrimPrefixBearer(last.header)).claims["role"] = Absent
    /\ last.status = StatusOK

C19_WitnessPromoteRefused ==
    /\ last.route = PromoteRoute
    /\ BearerRole(last.header, "user")
    /\ last.status = StatusForbidden
    /\ Len(users) = 2


\* C20: a store failure during register, login, promote or a task
\* operation is answered 500, never 400, 404 or 401.
C20_StoreErrorIs500 ==
    StoreFailed(last) => last.status = StatusInternalServerError

\* What the handlers do answer when a store call fails: 500 on GET /tasks,
\* POST /tasks, promote and GET /users/{username}; 400 on register and on
\* GET, PUT and DELETE /tasks/{id}; 401 on login.  No call follows the one
\* that failed, and exactly one call failed.
C20_StoreErrorStatus ==
    StoreFailed(last) =>
        /\ last.status =
              CASE last.route \in {"GET /tasks", "POST /tasks", PromoteRoute,
                                   "GET /users/:username"}
                       -> StatusInternalServerError
                [] last.route \in {"POST /register"} \cup TaskIDRoutes
                       -> StatusBadRequest
                [] last.route = "POST /login" -> StatusUnauthorized
        /\ Cardinality({i \in 1..Len(last.calls) : last.calls[i] = StoreError}) = 1
        /\ Len(last.calls) <= 4


FailureStatuses ==
    {StatusBadRequest, StatusUnauthorized, StatusForbidden, StatusNotFound,
     StatusInternalServerError}

\* C21: every failure response of every route (400, 401, 403, 404, 500)
\* carries its message under the key "error".
C21_ErrorEnvelope ==
    last.status \in FailureStatuses => (last.key = "error" /\ last.error # "")

\* The part of C21 the code keeps: every failure response but those of
\* PUT /tasks/{id} after the body is bound has the key "error"; those have
\* "message" on 404 and "Error" on 400.
C21_ErrorEnvelopeButUpdate ==
    last.status \in FailureStatuses =>
        /\ last.error # ""
        /\ last.key =
              IF last.route = "PUT /tasks/:id" /\ last.ran /\ last.error # BindError
              THEN (IF last.status = StatusNotFound THEN "message" ELSE "Error")
              ELSE "error"


Unverifiable(header) ==
    /\ HasPrefixBearer(header)
    /\ ValidateToken(TrimPrefixBearer(header)).err # ""

\* C22: a request with a well-formed bearer header whose token cannot be
\* verified gets the response of a request with no header: status 401 and
\* the same body, so the response does not tell the two causes apart.
C22_SameUnauthenticated ==
    (last.route \in ProtectedRoutes /\ Unverifiable(last.header))
        => /\ last.status = StatusUnauthorized
           /\ last.key = "error"
           /\ last.error = AuthMiddleware(NewContext(NoHeader)).error

\* The part of C22 the code keeps: both causes are answered 401 before the
\* handler runs; the message names the cause.
C22_BothUnauthorized ==
    /\ (last.route \in ProtectedRoutes /\ Unverifiable(last.header))
          => /\ last.status = StatusUnauthorized
             /\ ~last.ran
             /\ last.error = "Invalid or expired token"
    /\ (last.route \in ProtectedRoutes /\ ~HasPrefixBearer(last.header))
          => /\ last.status = StatusUnauthorized
             /\ ~last.ran
             /\ last.error = "Authorization header missing or invalid"


TokenClaims(header) == ValidateToken(TrimPrefixBearer(header)).claims

\* the stored role of the user a verified token was issued to, if stored
StoredRoleIs(header, role) ==
    \E i \in 1..Len(users) :
        /\ Str(Hex(users[i].id)) = TokenClaims(header)["_id"]
        /\ users[i].role = role

\* C23: an admin-only route is decided by the role claim of the token, not
\* by the stored role: a token issued before the promotion of its user is
\* still answered 403, and a login after the promotion issues a token with
\* role admin, which is accepted.
C23_RoleFromToken ==
    /\ (last.route \in AdminRoutes /\ ValidBearer(last.header))
          => /\ last.ran <=> (TokenClaims(last.header)["role"] = Str("admin"))
             /\ ~last.ran => last.status = StatusForbidden
    /\ (last.route = "POST /login" /\ last.status = StatusOK)
          => \E i \in 1..Len(users) :
                /\ users[i].username = last.in.username
                /\ last.token = GenerateToken(Hex(users[i].id), users[i].username,
                                              users[i].role)

C23_Witness ==
    /\ last.route \in AdminRoutes
    /\ BearerRole(last.header, "user")
    /\ StoredRoleIs(last.header, "admin")
    /\ last.status = StatusForbidden

C23_WitnessAfterLogin ==
    /\ last.route = "POST /tasks"
    /\ BearerRole(last.header, "admin")
    /\ TokenClaims(last.header)["username"] = Str("bob")
    /\ last.status = StatusCreated


LacksClaim(token) == \E k \in ClaimKeys : token.claims[k] = Absent

\* C24: a token whose signature does not match the secret, whose signing
\* method is not HMAC, whose structure is malformed or whose claims lack
\* the subject id, the username or the role is rejected: AuthMiddleware
\* answers 401, does not call the next handler and sets no context value.
C24_IncompleteTokenRejected ==
    (/\ last.route \in ProtectedRoutes
     /\ HasPrefixBearer(last.header)
     /\ \/ ValidateToken(TrimPrefixBearer(last.header)).err # ""
        \/ LacksClaim(TrimPrefixBearer(last.header)))
        => /\ last.status = StatusUnauthorized
           /\ ~last.ran
           /\ last.ctx = EmptyContext

\* The part of C24 the code keeps: a malformed token, one with a method
\* that is not HMAC and one signed with another key are rejected so.  A
\* token that verifies but has no role claim passes AuthMiddleware with a
\* nil role in the context.
C24_UnverifiedRejected ==
    /\ (last.route \in ProtectedRoutes /\ Unverifiable(last.header))
          => /\ last.status = StatusUnauthorized
             /\ ~last.ran
             /\ last.calls = <<>>
             /\ last.ctx = EmptyContext
    /\ (/\ last.route \in ProtectedRoutes
        /\ ValidBearer(last.header)
        /\ LacksClaim(TrimPrefixBearer(last.header)))
          => /\ last.status # StatusUnauthorized
             /\ last.ctx # EmptyContext
             /\ last.ran <=> last.route \notin AdminRoutes


\* C25: every validation error is answered 400; POST /login with an empty
\* username ("username is a required field") is answered 400, and only a
\* credential mismatch or an unknown username is answered 401.
C25_EmptyUsernameIs400 ==
    (last.route = "POST /login" /\ last.ran /\ last.error # BindError
        /\ last.in.username = "")
        => last.status = StatusBadRequest

\* What Controller.Login answers: 401 for every error of LoginUser, the
\* required-field error included; 400 only for a body that does not bind.
C25_LoginErrorsAre401 ==
    (last.route = "POST /login" /\ last.ran /\ last.error # BindError)
        => /\ last.status \in {StatusOK, StatusUnauthorized}
           /\ last.in.username = ""
                 => /\ last.status = StatusUnauthorized
                    /\ last.error = "username is a required field"
                    /\ last.calls = <<>>


LegacyLogin == "task_manager POST /login"

\* the record that controllers.RegisterUser and data.RegisterUser leave for
\* a registration of `username` with `password`: the hash of the hash
RegisteredWith(username, password) ==
    \E i \in 1..Len(users) :
        /\ users[i].username = username
        /\ users[i].password = GenerateFromPassword(GenerateFromPassword(password))

\* C26: in the task_manager code path a user registered with password p
\* can afterwards log in through data.LoginUser with the same username
\* and p.
C26_LegacyRegisterThenLogin ==
    (/\ last.route = LegacyLogin
     /\ last.ran
     /\ last.error # BindError
     /\ RegisteredWith(last.in.username, last.in.password))
        => last.status = StatusOK

\* What the code path does: the stored hash is the hash of the hash, which
\* CompareHashAndPassword never matches with a submitted password, so
\* every login of a registered user is refused.
C26_LegacyLoginRefused ==
    (last.route = LegacyLogin /\ last.ran /\ last.error # BindError)
        => /\ last.status = StatusBadRequest
           /\ last.key = "message"


\* C27: over register, login, promote and lookup no user record is
\* removed, no user's id or username changes, and a role changes only from
\* user to admin, by a promote; an admin stays admin.
C27_UsersOnlyGrow ==
    [][/\ Len(users') >= Len(users)
       /\ \A i \in 1..Len(users) :
             /\ users'[i].id = users[i].id
             /\ users'[i].username = users[i].username
             /\ users[i].role = "admin" => users'[i].role = "admin"
             /\ users'[i].role # users[i].role
                   => /\ users[i].role = "user"
                      /\ users'[i].role = "admin"
                      /\ last'.route = PromoteRoute]_vars

C27_Witness ==
    /\ Len(users) = 2
    /\ users[1].role = "admin"
    /\ users[2].role = "admin"
    /\ last.route = "GET /users/:username"
    /\ last.status = StatusOK
    /\ last.out = users[2]

C27_WitnessPromoteAdmin ==
    /\ last.route = PromoteRoute
    /\ last.status = StatusOK
    /\ last.param = Hex(1)
    /\ Len(users) = 1
    /\ users[1].role = "admin"


\* C28: the id and the role of a register body have no influence on the
\* result: whatever id and role are submitted with a username and a
\* password, the store and the returned user are those of the body without
\* them; the stored role follows from the user count and the id is the one
\* the store assigns.
C28_BodyRoleAndIDIgnored ==
    [][(last' # last /\ last'.route = "POST /register" /\ last'.error # BindError)
        => /\ \A id \in SubmittedIDs, role \in SubmittedRoles :
                 LET res == RegisterUserRepo(users,
                                [last'.in EXCEPT !.id = id, !.role = role], oid.users)
                 IN  /\ last'.error = res.err
                     /\ res.err = "" => (users' = res.coll /\ last'.out = res.user)
                     /\ res.err # "" => users' = users
           /\ Len(users') > Len(users)
                 => /\ users'[Len(users')].role = RoleForCount(Len(users))
                    /\ users'[Len(users')].id = NewObjectID(0, oid.users)
                    /\ last'.out.role = users'[Len(users')].role]_vars

C28_Witness ==
    /\ last.route = "POST /register"
    /\ last.status = StatusCreated
    /\ last.in.role = "admin"
    /\ last.in.id = NewObjectID(0, 0)
    /\ last.out.role = "user"
    /\ last.out.id # last.in.id
    /\ Len(users) = 2
    /\ users[2].role = "user"

C28_WitnessLogin ==
    /\ last.route = "POST /login"
    /\ last.status = StatusOK
    /\ last.in.username = "bob"
    /\ last.token.claims["role"] = Str("user")
    /\ Len(users) = 2


UpdateFailed(response) ==
    response.route = "PUT /tasks/:id" /\ response.ran /\ response.status # StatusOK

\* C29: an UpdateTask that returns an error has not modified any stored
\* task, also when a DeleteTask or another UpdateTask of the same id runs
\* between its write and its re-read.
C29_FailedUpdateWroteNothing ==
    [][/\ (last' # last /\ UpdateFailed(last') /\ reg' = reg) => tasks' = tasks
       /\ \A call \in BagToSet(reg) :
             (reg' = Leave(call) /\ UpdateFailed(last')) => ~call.modified]_vars

\* The part of C29 the code keeps: an error returned before or by UpdateOne
\* (body, id format, no match) leaves every task as it was, and a second
\* UpdateTask between the write and the re-read does not make the first
\* one fail: its re-read answers 200 with the document as it then is.
C29_ErrorAtWriteWroteNothing ==
    [][/\ (last' # last /\ UpdateFailed(last') /\ reg' = reg) => tasks' = tasks
       /\ \A call \in BagToSet(reg) :
             (reg' = Leave(call) /\ StoredID(tasks, ObjectIDFromHex(call.param).id)
                 /\ ~StoreFailed(last'))
                => /\ last'.status = StatusOK
                   /\ \E i \in 1..Len(tasks) : tasks[i] = last'.taskOut]_vars

\* a DELETE ran between the write and the re-read: the update is answered
\* 404 after it has changed the document
C29_DeletedBetween ==
    /\ last.route = "PUT /tasks/:id"
    /\ last.status = StatusNotFound
    /\ last.calls = <<"UpdateOne", "FindOne">>


MaxKey(m) == IF DOMAIN m = {} THEN 0 ELSE CHOOSE k \in DOMAIN m : \A j \in DOMAIN m : j <= k

\* in every state of the in-memory task store nextID is greater than every
\* key of the map and every stored task's ID is its key
C30_KeysBelowNextID ==
    /\ \A k \in DOMAIN tasks : k < nextID /\ tasks[k].id = k
    /\ (last.route = "data.CreateTask") => last.taskOut.id < nextID

\* C30: in the in-memory task store, in whatever order concurrent calls
\* take the lock, nextID never decreases and stays greater than every key,
\* every stored task's ID is its key, CreateTask returns an id that is at
\* least the nextID it found (hence greater than every id returned and
\* every key stored before, also after deletions) and stores the task
\* under it, and UpdateTask and DeleteTask of an absent id return false and
\* change nothing.
C30_FreshIDs ==
    [][/\ nextID' >= nextID
       /\ \A k \in DOMAIN tasks' : k < nextID' /\ tasks'[k].id = k
       /\ (last' # last /\ last'.route = "data.CreateTask")
             => /\ last'.taskOut.id >= nextID
                /\ last'.taskOut.id > MaxKey(tasks)
                /\ last'.taskOut.id < nextID'
                /\ tasks' = MapSet(tasks, last'.taskOut.id, last'.taskOut)
       /\ (/\ last'.route \in {"data.UpdateTask", "data.DeleteTask"}
           /\ last'.taskIn.id \notin DOMAIN tasks)
             => (~last'.ran /\ tasks' = tasks /\ nextID' = nextID)
       /\ (/\ last' # last
           /\ last'.route \in {"data.UpdateTask", "data.DeleteTask"}
           /\ last'.taskIn.id \in DOMAIN tasks)
             => (last'.ran /\ nextID' = nextID)]_vars

\* a task created after the one with the greatest id was deleted
C30_Witness ==
    /\ last.route = "data.CreateTask"
    /\ last.taskOut.id = 3
    /\ DOMAIN tasks = {1, 3}
    /\ last.taskIn.id = 1

C30_WitnessAbsent ==
    /\ last.route = "data.DeleteTask"
    /\ ~last.ran
    /\ last.taskIn.id = 1
    /\ DOMAIN tasks = {2}

====
